---- MODULE Spec2Model ----
(***************************************************************************)
(* A3CGcnMultiPoliciesSolver (virne/solver/learning/a3c_gcn/solver.py):    *)
(* one meta-policy, task policies keyed by virtual-network size, the       *)
(* buffer split by task, the fine-tuning update loop and the checkpoint    *)
(* save/load.  Python objects are modelled by identity: a heap maps an     *)
(* object id to the object's value, the agent's fields hold ids.           *)
(***************************************************************************)
EXTENDS Integers, Sequences, FiniteSets, TLC

\* ---------------------------------------------------------------- bounds
MaxLen == 2
MaxEpisodeSteps == 1
MaxParam == 1
MaxSplitLen == 3
MaxCalls == 5
MaxBatch == 2

\* task identities (v_net.num_nodes) the instances are drawn from
TaskIds == {3, 5}
\* values of the infer_with_single_task_policy_id option (0: not set)
SingleIds == {0, 5}
\* what a step records besides its task id: the observation's node pointer,
\* the action, the log-probability, the reward and the return
StepVals == {<<0, 0, 0, 0, 0>>, <<1, 0, 0, 0, 0>>, <<0, 1, 0, 0, 0>>,
             <<0, 0, 1, 0, 0>>, <<0, 0, 0, 1, 0>>, <<0, 0, 0, 0, 1>>}

VARIABLES
    policy_params,    \* heap of ActorCritic objects: id -> parameters
    optimizers,       \* heap of Adam objects: id -> [params_of, state]
    buffers,          \* heap of RolloutBuffer objects: id -> buffer
    policy,           \* self.policy
    optimizer,        \* self.optimizer
    buffer,           \* self.buffer
    searcher_policy,  \* self.searcher.policy
    meta_policy,      \* self.meta_policy
    meta_optimizer,   \* self.meta_optimizer
    task_policies,    \* self.task_policies: task id -> policy object
    task_optimizers,  \* self.task_optimizers: task id -> optimizer object
    infer_with_single_task_policy_id,
    disk,             \* the checkpoint file: <<>> or <<archive>>
    last_call,        \* history: the latest call and how it ended
    generic_calls,    \* history: super().update() calls of the latest call
    learn_calls,      \* history: super().learn_with_instance() calls of it
    ncalls,           \* history: the number of calls made so far
    split_in,         \* argument of _split_buffer (pure-function check)
    split_src,        \* history: what that buffer held when it was passed
    split_out,        \* its result
    split_pc,
    obs_in,           \* observations given to obs_as_tensor (pure-function check)
    tensor_one,       \* its result for obs_in[1], a dict
    tensor_batch,     \* its result for obs_in, a list
    tensor_pc

agent_vars == <<policy_params, optimizers, buffers, policy, optimizer, buffer,
                searcher_policy, meta_policy, meta_optimizer, task_policies,
                task_optimizers, infer_with_single_task_policy_id>>
split_vars == <<split_in, split_src, split_out, split_pc>>
tensor_vars == <<obs_in, tensor_one, tensor_batch, tensor_pc>>
pure_vars == <<split_vars, tensor_vars>>
vars == <<agent_vars, disk, last_call, generic_calls, learn_calls, ncalls,
          pure_vars>>

\* ------------------------------------------------------------- utilities
Range(f) == {f[x] : x \in DOMAIN f}

Min(S) == CHOOSE x \in S : \A y \in S : x <= y

\* id of a newly allocated object: one no live object of the heap has
Fresh(used) == Min({n \in 1..(Cardinality(used) + 1) : n \notin used})

\* the same, taking the id `hint` when it is free
FreshAt(used, hint) == IF hint \notin used THEN hint ELSE Fresh(used)

EmptyMap == [x \in {} |-> 0]

\* obs_as_tensor not called yet
NoResult == [raised |-> FALSE, fields |-> EmptyMap]

\* ------------------------------------------------------- RolloutBuffer()
EmptyBuffer ==
    [observations |-> <<>>, actions |-> <<>>, logprobs |-> <<>>,
     rewards |-> <<>>, returns |-> <<>>]

BufferSize(b) == Len(b.observations)

\* --------------------------------------------------------- _split_buffer
\* np.array([obs['v_net_size'] for obs in buffer.observations])
VNetSizeList(b) == [i \in 1..Len(b.observations) |-> b.observations[i].v_net_size]

\* sorted(list(set(...))): the elements of S in ascending order
RECURSIVE SortedList(_)
SortedList(S) ==
    IF S = {} THEN <<>>
    ELSE LET m == Min(S) IN <<m>> \o SortedList(S \ {m})

\* np.where(v_net_size_list == task_id)[0], scanning from index i
RECURSIVE NpWhere(_, _, _)
NpWhere(list, task_id, i) ==
    IF i > Len(list) THEN <<>>
    ELSE (IF list[i] = task_id THEN <<i>> ELSE <<>>) \o NpWhere(list, task_id, i + 1)

\* [seq[i] for i in task_indices], and np.array(seq)[task_indices].tolist():
\* for a list of numbers the conversion to an array and back keeps each value
TakeIndices(seq, task_indices) ==
    [j \in 1..Len(task_indices) |-> seq[task_indices[j]]]

\* the source buffer after the call: the comprehensions and the np.array
\* copies read its five lists and assign none of them
SourceAfterSplit(b) ==
    [observations |-> b.observations, actions |-> b.actions,
     logprobs |-> b.logprobs, rewards |-> b.rewards, returns |-> b.returns]

\* the sub-buffer with the whole list of log-probabilities
TaskBufferLogprobsWhole(b, task_id) ==
    LET task_indices == NpWhere(VNetSizeList(b), task_id, 1)
    IN  [observations |-> TakeIndices(b.observations, task_indices),
         actions      |-> TakeIndices(b.actions, task_indices),
         logprobs     |-> b.logprobs,
         rewards      |-> TakeIndices(b.rewards, task_indices),
         returns      |-> TakeIndices(b.returns, task_indices)]

\* the sub-buffer with its returns cut from the front of the list instead of
\* taken at the task's indices
TaskBufferReturnsByPrefix(b, task_id) ==
    LET task_indices == NpWhere(VNetSizeList(b), task_id, 1)
    IN  [observations |-> TakeIndices(b.observations, task_indices),
         actions      |-> TakeIndices(b.actions, task_indices),
         logprobs     |-> TakeIndices(b.logprobs, task_indices),
         rewards      |-> TakeIndices(b.rewards, task_indices),
         returns      |-> SubSeq(b.returns, 1, Len(task_indices))]

\* the sub-buffer built for one task id (the body of the for loop)
TaskBuffer(b, task_id) ==
    LET task_indices == NpWhere(VNetSizeList(b), task_id, 1)
    IN  [observations |-> TakeIndices(b.observations, task_indices),
         actions      |-> TakeIndices(b.actions, task_indices),
         logprobs     |-> TakeIndices(b.logprobs, task_indices),
         rewards      |-> TakeIndices(b.rewards, task_indices),
         returns      |-> TakeIndices(b.returns, task_indices)]

\* Counter(v_net_size_list).keys(): distinct ids in order of first appearance
RECURSIVE FirstSeen(_, _)
FirstSeen(list, seen) ==
    IF list = <<>> THEN <<>>
    ELSE IF Head(list) \in seen THEN FirstSeen(Tail(list), seen)
         ELSE <<Head(list)>> \o FirstSeen(Tail(list), seen \cup {Head(list)})

StatsTaskDist(b) == FirstSeen(VNetSizeList(b), {})

\* the returned dict iterating in the order the ids first appear in the buffer
SplitBufferFirstSeen(b) ==
    LET tasks_list == SortedList(Range(VNetSizeList(b)))
        task_buffers == [task_id \in Range(tasks_list) |-> TaskBuffer(b, task_id)]
    IN  [keys |-> FirstSeen(VNetSizeList(b), {}), task_buffers |-> task_buffers]

\* the returned dict: keys in iteration order, and the sub-buffer of each key
SplitBuffer(b) ==
    LET tasks_list == SortedList(Range(VNetSizeList(b)))
        task_buffers == [task_id \in Range(tasks_list) |-> TaskBuffer(b, task_id)]
    IN  [keys |-> SortedList(DOMAIN task_buffers), task_buffers |-> task_buffers]

\* ------------------------------------------------- the agent as a record
\* the fields a handler reads and writes, with its locals: task_buffers (the
\* ids of the sub-buffer objects), the log of super().update() calls and
\* whether an exception is propagating
Self ==
    [policy_params |-> policy_params, optimizers |-> optimizers,
     buffers |-> (buffer :> buffers[buffer]),
     policy |-> policy, optimizer |-> optimizer, buffer |-> buffer,
     task_policies |-> task_policies, task_optimizers |-> task_optimizers,
     task_buffers |-> EmptyMap, calls |-> <<>>, learn_calls |-> <<>>,
     raised |-> FALSE]

\* an assignment without the copy: the same object under a second name
SameObject(heap, obj, hint) == obj

\* copy.deepcopy(obj): a new object
DeepCopy(heap, obj, hint) == FreshAt(DOMAIN heap, hint)

\* the new pair made as a copy of the active policy instead of the meta-policy
InitFromActivePolicy(s, task_id) ==
    LET p == DeepCopy(s.policy_params, s.policy, task_id)
        o == FreshAt(DOMAIN s.optimizers, task_id)
    IN  [s EXCEPT !.policy_params = (p :> s.policy_params[s.policy]) @@ @,
                  !.optimizers = (o :> [params_of |-> p, state |-> 0]) @@ @,
                  !.task_policies = (task_id :> p) @@ @,
                  !.task_optimizers = (task_id :> o) @@ @]

\* self.task_policies[task_id] = copy.deepcopy(self.meta_policy)
\* self.task_optimizers[task_id] = torch.optim.Adam(...parameters(), lr=self.lr)
InitTaskPolicyAndTaskOptimizer(s, task_id) ==
    LET p == DeepCopy(s.policy_params, meta_policy, task_id)
        o == FreshAt(DOMAIN s.optimizers, task_id)
    IN  [s EXCEPT !.policy_params = (p :> s.policy_params[meta_policy]) @@ @,
                  !.optimizers = (o :> [params_of |-> p, state |-> 0]) @@ @,
                  !.task_policies = (task_id :> p) @@ @,
                  !.task_optimizers = (task_id :> o) @@ @]

Call(op, input, raised, caught, inferred_with) ==
    [op |-> op, input |-> input, raised |-> raised,
     caught |-> caught, inferred_with |-> inferred_with]

\* the agent's fields after a handler that ended in s
Commit(s) ==
    /\ policy_params' = s.policy_params
    /\ optimizers' = s.optimizers
    /\ buffers' = s.buffers
    /\ policy' = s.policy
    /\ optimizer' = s.optimizer
    /\ buffer' = s.buffer
    /\ task_policies' = s.task_policies
    /\ task_optimizers' = s.task_optimizers
    /\ generic_calls' = s.calls
    /\ learn_calls' = s.learn_calls

\* every call counts towards the bound on the length of a run
Called ==
    /\ ncalls < MaxCalls
    /\ ncalls' = ncalls + 1

\* ---------------------------------------------------------------- solve
\* super().solve(instance): an inference episode with self.searcher.policy
GenericSolve(searcher) == searcher

\* solve looking the override id up with the meta-policy as the default
SolveOutcomeWithDefault(v_net_size) ==
    IF infer_with_single_task_policy_id # 0
    THEN IF infer_with_single_task_policy_id \in DOMAIN task_policies
         THEN [searcher_policy |-> task_policies[infer_with_single_task_policy_id],
               raised |-> FALSE]
         ELSE [searcher_policy |-> meta_policy, raised |-> FALSE]
    ELSE IF v_net_size \notin DOMAIN task_policies
         THEN [searcher_policy |-> meta_policy, raised |-> FALSE]
         ELSE [searcher_policy |-> task_policies[v_net_size], raised |-> FALSE]

\* solve with the membership test inverted
SolveOutcomeInverted(v_net_size) ==
    IF infer_with_single_task_policy_id # 0
    THEN IF infer_with_single_task_policy_id \in DOMAIN task_policies
         THEN [searcher_policy |-> task_policies[infer_with_single_task_policy_id],
               raised |-> FALSE]
         ELSE [searcher_policy |-> searcher_policy, raised |-> TRUE]
    ELSE IF v_net_size \in DOMAIN task_policies
         THEN [searcher_policy |-> meta_policy, raised |-> FALSE]
         ELSE [searcher_policy |-> searcher_policy, raised |-> TRUE]

SolveOutcome(v_net_size) ==
    IF infer_with_single_task_policy_id # 0
    THEN IF infer_with_single_task_policy_id \in DOMAIN task_policies
         THEN [searcher_policy |-> task_policies[infer_with_single_task_policy_id],
               raised |-> FALSE]
         ELSE [searcher_policy |-> searcher_policy, raised |-> TRUE]
    ELSE IF v_net_size \notin DOMAIN task_policies
         THEN [searcher_policy |-> meta_policy, raised |-> FALSE]
         ELSE [searcher_policy |-> task_policies[v_net_size], raised |-> FALSE]

Solve(v_net_size) ==
    LET r == SolveOutcome(v_net_size)
    IN  /\ Called
        /\ searcher_policy' = r.searcher_policy
        /\ last_call' = Call("solve", "", r.raised, FALSE,
                             IF r.raised THEN 0 ELSE GenericSolve(r.searcher_policy))
        /\ Commit(Self)
        /\ UNCHANGED <<meta_policy, meta_optimizer,
                       infer_with_single_task_policy_id, disk, pure_vars>>

\* -------------------------------------------------- learn_with_instance
Step(v_net_size) == [v_net_size |-> v_net_size, curr_v_node_id |-> 0]

RECURSIVE Repeat(_, _)
Repeat(x, n) == IF n = 0 THEN <<>> ELSE <<x>> \o Repeat(x, n - 1)

\* super().learn_with_instance(instance): an episode of n steps, appended to
\* the active buffer with the instance's task-identity label
GenericLearnWithInstance(s, v_net_size, n) ==
    [s EXCEPT !.buffers[s.buffer] =
        [observations |-> @.observations \o Repeat(Step(v_net_size), n),
         actions      |-> @.actions \o Repeat(0, n),
         logprobs     |-> @.logprobs \o Repeat(0, n),
         rewards      |-> @.rewards \o Repeat(0, n),
         returns      |-> @.returns \o Repeat(0, n)]]

\* what super().learn_with_instance finds when it is handed control
Handoff(s, before, v_net_size) ==
    [s EXCEPT !.learn_calls = Append(@,
        [v_net_size |-> v_net_size, policy |-> s.policy,
         optimizer |-> s.optimizer, policy_before |-> before.policy,
         task_policies |-> s.task_policies,
         task_optimizers |-> s.task_optimizers])]

\* learn_with_instance creating the pair without the membership test
LearnOutcomeAlwaysInit(v_net_size, n) ==
    LET s1 == InitTaskPolicyAndTaskOptimizer(Self, v_net_size)
        s2 == [s1 EXCEPT !.policy = s1.task_policies[v_net_size],
                         !.optimizer = s1.task_optimizers[v_net_size]]
    IN  GenericLearnWithInstance(Handoff(s2, Self, v_net_size), v_net_size, n)

\* learn_with_instance making the pair active only when it has just made it
LearnOutcomeSwitchesWhenNew(v_net_size, n) ==
    LET task_id == v_net_size
        s1 == IF task_id \notin DOMAIN task_policies
              THEN InitTaskPolicyAndTaskOptimizer(Self, task_id)
              ELSE Self
        s2 == IF task_id \notin DOMAIN task_policies
              THEN [s1 EXCEPT !.policy = s1.task_policies[v_net_size],
                              !.optimizer = s1.task_optimizers[v_net_size]]
              ELSE s1
    IN  GenericLearnWithInstance(Handoff(s2, Self, v_net_size), v_net_size, n)

LearnOutcome(v_net_size, n) ==
    LET task_id == v_net_size
        s1 == IF task_id \notin DOMAIN task_policies
              THEN InitTaskPolicyAndTaskOptimizer(Self, task_id)
              ELSE Self
        s2 == [s1 EXCEPT !.policy = s1.task_policies[v_net_size],
                         !.optimizer = s1.task_optimizers[v_net_size]]
    IN  GenericLearnWithInstance(Handoff(s2, Self, v_net_size), v_net_size, n)

LearnWithInstance(v_net_size, n) ==
    /\ Called
    /\ BufferSize(buffers[buffer]) + n <= MaxLen
    /\ Commit(LearnOutcome(v_net_size, n))
    /\ last_call' = Call("learn_with_instance", "", FALSE, FALSE, 0)
    /\ UNCHANGED <<searcher_policy, meta_policy, meta_optimizer,
                   infer_with_single_task_policy_id, disk, pure_vars>>

\* --------------------------------------------------------------- update
\* for task_id in task_dist.keys(): create the pair when the id has none
RECURSIVE InitTaskPolicies(_, _)
InitTaskPolicies(s, task_ids) ==
    IF task_ids = <<>> THEN s
    ELSE InitTaskPolicies(
            IF Head(task_ids) \notin DOMAIN s.task_policies
            THEN InitTaskPolicyAndTaskOptimizer(s, Head(task_ids))
            ELSE s,
            Tail(task_ids))

\* the RolloutBuffer objects _split_buffer creates, one per key in order
RECURSIVE NewTaskBuffers(_, _, _)
NewTaskBuffers(s, keys, split) ==
    IF keys = <<>> THEN s
    ELSE LET b == Fresh(DOMAIN s.buffers)
         IN  NewTaskBuffers(
                [s EXCEPT !.buffers = (b :> split.task_buffers[Head(keys)]) @@ @,
                          !.task_buffers = (Head(keys) :> b) @@ @],
                Tail(keys), split)

\* super().update(): reads the active buffer, changes the active policy's
\* parameters and the active optimizer's state in place; it may fail, before
\* or after it has changed them
GenericUpdate(s, fails, partial) ==
    LET stepped == [s EXCEPT !.policy_params[s.policy] = @ + 1,
                             !.optimizers[s.optimizer].state = @ + 1]
    IN  IF fails
        THEN [(IF partial THEN stepped ELSE s) EXCEPT !.raised = TRUE]
        ELSE stepped

\* what super().update() finds when it is called for task_id
UpdateCall(s, task_id) ==
    [task_id |-> task_id, policy |-> s.policy, optimizer |-> s.optimizer,
     buffer |-> s.buffer, steps |-> s.buffers[s.buffer],
     params |-> s.policy_params[s.policy],
     state |-> s.optimizers[s.optimizer].state,
     task_policies |-> s.task_policies, task_optimizers |-> s.task_optimizers]

\* the loop swapping the policy and the optimizer in, but not the buffer
RECURSIVE InnerLoopWholeBuffer(_, _, _, _)
InnerLoopWholeBuffer(s, keys, fail, partial) ==
    IF keys = <<>> THEN s
    ELSE LET task_id == Head(keys)
             s1 == [s EXCEPT !.policy = s.task_policies[task_id],
                             !.optimizer = s.task_optimizers[task_id]]
             s2 == [s1 EXCEPT !.calls = Append(@, UpdateCall(s1, task_id))]
             s3 == GenericUpdate(s2, task_id = fail, partial)
         IN  IF s3.raised THEN s3
             ELSE InnerLoopWholeBuffer(s3, Tail(keys), fail, partial)

\* for task_id in task_buffers.keys(): swap the triple in, update
RECURSIVE InnerLoop(_, _, _, _)
InnerLoop(s, keys, fail, partial) ==
    IF keys = <<>> THEN s
    ELSE LET task_id == Head(keys)
             s1 == [s EXCEPT !.policy = s.task_policies[task_id],
                             !.optimizer = s.task_optimizers[task_id],
                             !.buffer = s.task_buffers[task_id]]
             s2 == [s1 EXCEPT !.calls = Append(@, UpdateCall(s1, task_id))]
             s3 == GenericUpdate(s2, task_id = fail, partial)
         IN  IF s3.raised THEN s3 ELSE InnerLoop(s3, Tail(keys), fail, partial)

\* _fine_tuning_update clearing the meta buffer in a finally clause
FineTuningUpdateClearsAlways(fail, partial) ==
    LET meta_buffer == buffer
        task_dist == StatsTaskDist(buffers[buffer])
        s1 == InitTaskPolicies(Self, task_dist)
        split == SplitBuffer(s1.buffers[s1.buffer])
        s2 == NewTaskBuffers(s1, split.keys, split)
        s3 == InnerLoop(s2, split.keys, fail, partial)
    IN  [s3 EXCEPT !.buffers[meta_buffer] = EmptyBuffer]

\* _fine_tuning_update ending with a step of the meta-optimizer on the
\* meta-policy
FineTuningUpdateWithMetaStep(fail, partial) ==
    LET meta_buffer == buffer
        task_dist == StatsTaskDist(buffers[buffer])
        s1 == InitTaskPolicies(Self, task_dist)
        split == SplitBuffer(s1.buffers[s1.buffer])
        s2 == NewTaskBuffers(s1, split.keys, split)
        s3 == InnerLoop(s2, split.keys, fail, partial)
    IN  IF s3.raised THEN s3
        ELSE [s3 EXCEPT !.buffers[meta_buffer] = EmptyBuffer,
                        !.policy_params[meta_policy] = @ + 1,
                        !.optimizers[meta_optimizer].state = @ + 1]

\* _fine_tuning_update; fail is the task id whose generic update fails (0: none)
FineTuningUpdate(fail, partial) ==
    LET meta_buffer == buffer
        task_dist == StatsTaskDist(buffers[buffer])
        s1 == InitTaskPolicies(Self, task_dist)
        split == SplitBuffer(s1.buffers[s1.buffer])
        s2 == NewTaskBuffers(s1, split.keys, split)
        s3 == InnerLoop(s2, split.keys, fail, partial)
    IN  IF s3.raised THEN s3
        ELSE [s3 EXCEPT !.buffers[meta_buffer] = EmptyBuffer]

\* the parameters a task's policy has when its generic update starts
ParamsAtUpdate(task_id) ==
    IF task_id \in DOMAIN task_policies
    THEN policy_params[task_policies[task_id]]
    ELSE policy_params[meta_policy]

Update(fail, partial) ==
    /\ Called
    /\ fail \in {0} \cup Range(VNetSizeList(buffers[buffer]))
    /\ fail = 0 => ~partial
    /\ \A t \in Range(VNetSizeList(buffers[buffer])) : ParamsAtUpdate(t) < MaxParam
    /\ LET s == FineTuningUpdate(fail, partial)
       IN  /\ Commit(s)
           /\ last_call' = Call("update", "", s.raised, FALSE, 0)
    /\ UNCHANGED <<searcher_policy, meta_policy, meta_optimizer,
                   infer_with_single_task_policy_id, disk, pure_vars>>

\* ----------------------------------------------------------- save_model
\* policy.state_dict() / optimizer.state_dict() as written by torch.save
StateDict(s, p, o) ==
    [policy |-> s.policy_params[p], optimizer |-> s.optimizers[o].state]

TaskModelDict(s) ==
    [meta_policy |-> StateDict(s, meta_policy, meta_optimizer),
     task_policies |-> [task_id \in DOMAIN s.task_policies |->
                          StateDict(s, s.task_policies[task_id],
                                    s.task_optimizers[task_id])]]

SaveModel ==
    /\ Called
    /\ disk' = <<TaskModelDict(Self)>>
    /\ Commit(Self)
    /\ last_call' = Call("save_model", "", FALSE, FALSE, 0)
    /\ UNCHANGED <<searcher_policy, meta_policy, meta_optimizer,
                   infer_with_single_task_policy_id, pure_vars>>

\* ----------------------------------------------------------- load_model
\* a state dict load_state_dict rejects
Bad == 0 - 1

\* what can be at checkpoint_path
NoArchiveKinds == {"missing", "corrupt"}
ArchiveKinds == {"intact", "no_meta_policy", "bad_meta_optimizer", "no_task_policies"}
TaskEntryKinds == {"bad_task_policy", "bad_task_optimizer"}

\* torch.load(checkpoint_path) of a file holding the saved archive, whole or
\* with one part of its schema missing or malformed
TorchLoad(kind, bad) ==
    LET a == disk[1]
    IN  [keys |-> CASE kind = "no_meta_policy" -> {"task_policies"}
                    [] kind = "no_task_policies" -> {"meta_policy"}
                    [] OTHER -> {"meta_policy", "task_policies"},
         meta_policy |-> IF kind = "bad_meta_optimizer"
                         THEN [a.meta_policy EXCEPT !.optimizer = Bad]
                         ELSE a.meta_policy,
         task_policies |-> CASE kind = "bad_task_policy" ->
                                  [a.task_policies EXCEPT ![bad].policy = Bad]
                             [] kind = "bad_task_optimizer" ->
                                  [a.task_policies EXCEPT ![bad].optimizer = Bad]
                             [] OTHER -> a.task_policies]

\* the loop restoring each task's policy but not its optimizer
RECURSIVE LoadTaskPoliciesOnly(_, _, _)
LoadTaskPoliciesOnly(s, task_ids, checkpoint) ==
    IF task_ids = <<>> THEN s
    ELSE LET task_id == Head(task_ids)
             entry == checkpoint.task_policies[task_id]
             s1 == IF task_id \notin DOMAIN s.task_policies
                   THEN InitTaskPolicyAndTaskOptimizer(s, task_id)
                   ELSE s
             s2 == [s1 EXCEPT !.policy_params[s1.task_policies[task_id]] = entry.policy]
         IN  IF entry.policy = Bad THEN [s1 EXCEPT !.raised = TRUE]
             ELSE IF entry.optimizer = Bad THEN [s2 EXCEPT !.raised = TRUE]
             ELSE LoadTaskPoliciesOnly(s2, Tail(task_ids), checkpoint)

\* for task_id in checkpoint['task_policies'].keys(), in the order given
RECURSIVE LoadTaskPolicies(_, _, _)
LoadTaskPolicies(s, task_ids, checkpoint) ==
    IF task_ids = <<>> THEN s
    ELSE LET task_id == Head(task_ids)
             entry == checkpoint.task_policies[task_id]
             s1 == IF task_id \notin DOMAIN s.task_policies
                   THEN InitTaskPolicyAndTaskOptimizer(s, task_id)
                   ELSE s
             s2 == [s1 EXCEPT !.policy_params[s1.task_policies[task_id]] = entry.policy]
             s3 == [s2 EXCEPT !.optimizers[s2.task_optimizers[task_id]].state =
                                  entry.optimizer]
         IN  IF entry.policy = Bad THEN [s1 EXCEPT !.raised = TRUE]
             ELSE IF entry.optimizer = Bad THEN [s2 EXCEPT !.raised = TRUE]
             ELSE LoadTaskPolicies(s3, Tail(task_ids), checkpoint)

\* load_model emptying the task dictionaries before it reads the file
LoadModelOutcomeResetFirst(kind, task_ids, bad) ==
    LET s0 == [Self EXCEPT !.task_policies = EmptyMap, !.task_optimizers = EmptyMap]
    IN  IF kind \in NoArchiveKinds THEN [s0 EXCEPT !.raised = TRUE]
        ELSE LET checkpoint == TorchLoad(kind, bad)
                 s1 == [s0 EXCEPT !.policy_params[meta_policy] =
                                      checkpoint.meta_policy.policy]
                 s2 == [s1 EXCEPT !.optimizers[meta_optimizer].state =
                                      checkpoint.meta_policy.optimizer]
             IN  IF "meta_policy" \notin checkpoint.keys THEN [s0 EXCEPT !.raised = TRUE]
                 ELSE IF checkpoint.meta_policy.optimizer = Bad THEN [s1 EXCEPT !.raised = TRUE]
                 ELSE IF "task_policies" \notin checkpoint.keys THEN [s2 EXCEPT !.raised = TRUE]
                 ELSE LoadTaskPolicies(s2, task_ids, checkpoint)

\* load_model starting the loop with empty task dictionaries
LoadModelOutcomeArchiveOnly(kind, task_ids, bad) ==
    IF kind \in NoArchiveKinds THEN [Self EXCEPT !.raised = TRUE]
    ELSE LET checkpoint == TorchLoad(kind, bad)
             s1 == [Self EXCEPT !.policy_params[meta_policy] =
                                    checkpoint.meta_policy.policy]
             s2 == [s1 EXCEPT !.optimizers[meta_optimizer].state =
                                  checkpoint.meta_policy.optimizer]
             s3 == [s2 EXCEPT !.task_policies = EmptyMap,
                              !.task_optimizers = EmptyMap]
         IN  IF "meta_policy" \notin checkpoint.keys THEN [Self EXCEPT !.raised = TRUE]
             ELSE IF checkpoint.meta_policy.optimizer = Bad THEN [s1 EXCEPT !.raised = TRUE]
             ELSE IF "task_policies" \notin checkpoint.keys THEN [s2 EXCEPT !.raised = TRUE]
             ELSE LoadTaskPolicies(s3, task_ids, checkpoint)

\* the body of the try block; raised is the exception the except clause catches
LoadModelOutcome(kind, task_ids, bad) ==
    IF kind \in NoArchiveKinds THEN [Self EXCEPT !.raised = TRUE]
    ELSE LET checkpoint == TorchLoad(kind, bad)
             s1 == [Self EXCEPT !.policy_params[meta_policy] =
                                    checkpoint.meta_policy.policy]
             s2 == [s1 EXCEPT !.optimizers[meta_optimizer].state =
                                  checkpoint.meta_policy.optimizer]
         IN  IF "meta_policy" \notin checkpoint.keys THEN [Self EXCEPT !.raised = TRUE]
             ELSE IF checkpoint.meta_policy.optimizer = Bad THEN [s1 EXCEPT !.raised = TRUE]
             ELSE IF "task_policies" \notin checkpoint.keys THEN [s2 EXCEPT !.raised = TRUE]
             ELSE LoadTaskPolicies(s2, task_ids, checkpoint)

\* the orders a dict with the keys S can iterate in
Orders(S) == {o \in [1..Cardinality(S) -> S] : Range(o) = S}

LoadModel(kind, task_ids, bad) ==
    /\ Called
    /\ kind \in NoArchiveKinds \cup ArchiveKinds \cup TaskEntryKinds
    /\ kind \notin NoArchiveKinds => disk # <<>>
    /\ IF kind \in NoArchiveKinds
       THEN task_ids = <<>>
       ELSE task_ids \in Orders(DOMAIN disk[1].task_policies)
    /\ IF kind \in TaskEntryKinds
       THEN bad \in DOMAIN disk[1].task_policies
       ELSE bad = 0
    /\ LET s == LoadModelOutcome(kind, task_ids, bad)
       IN  /\ Commit([s EXCEPT !.raised = FALSE])
           /\ last_call' = Call("load_model", kind, FALSE, s.raised, 0)
    /\ UNCHANGED <<searcher_policy, meta_policy, meta_optimizer,
                   infer_with_single_task_policy_id, disk, pure_vars>>

\* ------------------------------------------------------- the agent's life
NoSplit ==
    /\ split_in = EmptyBuffer
    /\ split_src = EmptyBuffer
    /\ split_out = [keys |-> <<>>, task_buffers |-> EmptyMap]
    /\ split_pc = "off"

NoTensor ==
    /\ obs_in = <<>>
    /\ tensor_one = NoResult
    /\ tensor_batch = NoResult
    /\ tensor_pc = "off"

\* a checkpoint an earlier run saved: its networks started from other random
\* parameters, and it trained a policy for task 5 with one update
Pretrained ==
    [meta_policy |-> [policy |-> 1, optimizer |-> 0],
     task_policies |-> (5 :> [policy |-> 2, optimizer |-> 1])]

\* __init__: self.policy from make_policy, its deep copy as the meta-policy,
\* no task policy; the checkpoint file is absent or holds a pretrained model
Init ==
    /\ policy_params = (1 :> 0) @@ (2 :> 0)
    /\ infer_with_single_task_policy_id \in SingleIds
    /\ disk \in {<<>>, <<Pretrained>>}
    /\ optimizers = (1 :> [params_of |-> 1, state |-> 0])
                       @@ (2 :> [params_of |-> 2, state |-> 0])
    /\ buffers = (1 :> EmptyBuffer)
    /\ policy = 1
    /\ optimizer = 1
    /\ buffer = 1
    /\ searcher_policy = 1
    /\ meta_policy = 2
    /\ meta_optimizer = 2
    /\ task_policies = EmptyMap
    /\ task_optimizers = EmptyMap
    /\ generic_calls = <<>>
    /\ learn_calls = <<>>
    /\ ncalls = 0
    /\ last_call = Call("init", "", FALSE, FALSE, 0)
    /\ NoSplit
    /\ NoTensor

Next ==
    \/ \E v_net_size \in TaskIds : Solve(v_net_size)
    \/ \E v_net_size \in TaskIds, n \in 1..MaxEpisodeSteps : LearnWithInstance(v_net_size, n)
    \/ \E fail \in {0} \cup TaskIds, partial \in BOOLEAN : Update(fail, partial)
    \/ SaveModel
    \/ \E kind \in NoArchiveKinds \cup ArchiveKinds \cup TaskEntryKinds,
          task_ids \in UNION {Orders(S) : S \in SUBSET TaskIds},
          bad \in {0} \cup TaskIds : LoadModel(kind, task_ids, bad)

Spec == Init /\ [][Next]_vars

\* ------------------------------------------- _split_buffer on any buffer
\* the rollout buffer holding the given steps, a step being <<task id, values>>
BufferOf(steps) ==
    [observations |-> [i \in 1..Len(steps) |->
                         [v_net_size |-> steps[i][1], curr_v_node_id |-> steps[i][2][1]]],
     actions      |-> [i \in 1..Len(steps) |-> steps[i][2][2]],
     logprobs     |-> [i \in 1..Len(steps) |-> steps[i][2][3]],
     rewards      |-> [i \in 1..Len(steps) |-> steps[i][2][4]],
     returns      |-> [i \in 1..Len(steps) |-> steps[i][2][5]]]

\* six steps labelled 3,3,5,5,5,3, each recording its index (from 0) in
\* every field
ScenarioLabels == <<3, 3, 5, 5, 5, 3>>

ScenarioBuffer ==
    BufferOf([i \in 1..Len(ScenarioLabels) |->
                <<ScenarioLabels[i], <<i - 1, i - 1, i - 1, i - 1, i - 1>>>>])

SplitInit ==
    /\ policy_params = (1 :> 0) @@ (2 :> 0)
    /\ infer_with_single_task_policy_id = 0
    /\ disk = <<>>
    /\ optimizers = (1 :> [params_of |-> 1, state |-> 0])
                       @@ (2 :> [params_of |-> 2, state |-> 0])
    /\ buffers = (1 :> EmptyBuffer)
    /\ policy = 1
    /\ optimizer = 1
    /\ buffer = 1
    /\ searcher_policy = 1
    /\ meta_policy = 2
    /\ meta_optimizer = 2
    /\ task_policies = EmptyMap
    /\ task_optimizers = EmptyMap
    /\ generic_calls = <<>>
    /\ learn_calls = <<>>
    /\ ncalls = 0
    /\ last_call = Call("init", "", FALSE, FALSE, 0)
    /\ \/ \E n \in 0..MaxSplitLen :
             \E steps \in [1..n -> TaskIds \X StepVals] : split_in = BufferOf(steps)
       \/ split_in = ScenarioBuffer
    /\ split_src = split_in
    /\ split_out = [keys |-> <<>>, task_buffers |-> EmptyMap]
    /\ split_pc = "ready"
    /\ NoTensor

Split ==
    /\ split_pc = "ready"
    /\ split_out' = SplitBuffer(split_in)
    /\ split_in' = SourceAfterSplit(split_in)
    /\ split_pc' = "done"
    /\ UNCHANGED <<agent_vars, disk, last_call, generic_calls, learn_calls,
                   ncalls, split_src, tensor_vars>>

SplitNext == Split

SpecSplit == SplitInit /\ [][SplitNext]_vars

\* -------------------------------------------------------- obs_as_tensor
\* the float32 nearest to the integer x (ties to the even mantissa): exact up
\* to 2^24, a multiple of 2 from there to 2^25
Float32(x) ==
    LET a == IF x < 0 THEN 0 - x ELSE x
        r == IF a <= 16777216 \/ a % 2 = 0 THEN a
             ELSE IF ((a + 1) \div 2) % 2 = 0 THEN a + 1 ELSE a - 1
    IN  IF x < 0 THEN 0 - r ELSE r

\* the int64 holding the integer x: every integer of the model is in range
Int64(x) == x

\* the shape np.array gives a list nested depth levels deep
RECURSIVE Shape(_, _)
Shape(x, depth) ==
    IF depth = 0 THEN <<>>
    ELSE <<Len(x)>> \o (IF Len(x) = 0 THEN <<>> ELSE Shape(x[1], depth - 1))

RECURSIVE AsFloat32(_, _)
AsFloat32(x, depth) ==
    IF depth = 0 THEN Float32(x)
    ELSE [i \in 1..Len(x) |-> AsFloat32(x[i], depth - 1)]

RECURSIVE AsInt64(_, _)
AsInt64(x, depth) ==
    IF depth = 0 THEN Int64(x)
    ELSE [i \in 1..Len(x) |-> AsInt64(x[i], depth - 1)]

\* torch.FloatTensor(np.array(x)) and torch.LongTensor(np.array(x))
FloatTensor(x, depth) ==
    [dtype |-> "float32", shape |-> Shape(x, depth), data |-> AsFloat32(x, depth)]

LongTensor(x, depth) ==
    [dtype |-> "int64", shape |-> Shape(x, depth), data |-> AsInt64(x, depth)]

\* get_pyg_data(x, edge_index): the graph of one observation
GetPygData(x, edge_index) ==
    [x |-> FloatTensor(x, 2), edge_index |-> LongTensor(edge_index, 2)]

\* Batch.from_data_list: the graphs side by side in one graph, the node ids
\* of each graph's edges shifted by the number of nodes before it, with the
\* graph every node belongs to and the node boundaries between graphs
RECURSIVE BatchFromDataList(_, _, _)
BatchFromDataList(data_list, g, acc) ==
    IF g > Len(data_list) THEN acc
    ELSE LET d == data_list[g]
             offset == Len(acc.x)
             shifted == [r \in 1..2 |->
                           [e \in 1..Len(d.edge_index.data[r]) |->
                               d.edge_index.data[r][e] + offset]]
         IN  BatchFromDataList(data_list, g + 1,
                [x |-> acc.x \o d.x.data,
                 edge_index |-> [r \in 1..2 |-> acc.edge_index[r] \o shifted[r]],
                 batch |-> acc.batch \o [n \in 1..Len(d.x.data) |-> g - 1],
                 ptr |-> Append(acc.ptr, offset + Len(d.x.data)),
                 num_graphs |-> g])

EmptyBatch ==
    [x |-> <<>>, edge_index |-> <<<<>>, <<>>>>, batch |-> <<>>, ptr |-> <<0>>,
     num_graphs |-> 0]

\* [observation[field] for observation in obs]
Column(obs, field) == [i \in 1..Len(obs) |-> obs[i][field]]

\* raise Exception(f"Unrecognized type of observation {type(obs)}")
Unrecognized == [raised |-> TRUE, fields |-> EmptyMap]

\* obs_as_tensor adding no batch dimension to v_net_x of a single observation
ObsAsTensorSqueezed(obs) ==
    IF obs.type = "dict"
    THEN LET o == obs.value
             tensor_obs_p_net == GetPygData(o.p_net_x, o.p_net_edge_index)
         IN  [raised |-> FALSE,
              fields |->
                [p_net |-> BatchFromDataList(<<tensor_obs_p_net>>, 1, EmptyBatch),
                 v_net_x |-> FloatTensor(o.v_net_x, 2),
                 curr_v_node_id |-> LongTensor(<<o.curr_v_node_id>>, 1),
                 action_mask |-> FloatTensor(<<o.action_mask>>, 2),
                 v_net_size |-> FloatTensor(<<o.v_net_size>>, 1)]]
    ELSE IF obs.type = "list"
    THEN LET p_net_data_list ==
                 [i \in 1..Len(obs.value) |->
                    GetPygData(obs.value[i].p_net_x, obs.value[i].p_net_edge_index)]
         IN  [raised |-> FALSE,
              fields |->
                [p_net |-> BatchFromDataList(p_net_data_list, 1, EmptyBatch),
                 v_net_x |-> FloatTensor(Column(obs.value, "v_net_x"), 3),
                 v_net_size |-> FloatTensor(Column(obs.value, "v_net_size"), 1),
                 curr_v_node_id |-> LongTensor(Column(obs.value, "curr_v_node_id"), 1),
                 action_mask |-> FloatTensor(Column(obs.value, "action_mask"), 2)]]
    ELSE Unrecognized

\* obs_as_tensor(obs, device); obs.type is what isinstance finds
ObsAsTensor(obs) ==
    IF obs.type = "dict"
    THEN LET o == obs.value
             tensor_obs_p_net == GetPygData(o.p_net_x, o.p_net_edge_index)
         IN  [raised |-> FALSE,
              fields |->
                [p_net |-> BatchFromDataList(<<tensor_obs_p_net>>, 1, EmptyBatch),
                 v_net_x |-> FloatTensor(<<o.v_net_x>>, 3),
                 curr_v_node_id |-> LongTensor(<<o.curr_v_node_id>>, 1),
                 action_mask |-> FloatTensor(<<o.action_mask>>, 2),
                 v_net_size |-> FloatTensor(<<o.v_net_size>>, 1)]]
    ELSE IF obs.type = "list"
    THEN LET p_net_data_list ==
                 [i \in 1..Len(obs.value) |->
                    GetPygData(obs.value[i].p_net_x, obs.value[i].p_net_edge_index)]
         IN  [raised |-> FALSE,
              fields |->
                [p_net |-> BatchFromDataList(p_net_data_list, 1, EmptyBatch),
                 v_net_x |-> FloatTensor(Column(obs.value, "v_net_x"), 3),
                 v_net_size |-> FloatTensor(Column(obs.value, "v_net_size"), 1),
                 curr_v_node_id |-> LongTensor(Column(obs.value, "curr_v_node_id"), 1),
                 action_mask |-> FloatTensor(Column(obs.value, "action_mask"), 2)]]
    ELSE Unrecognized

\* the observations the function is applied to: a substrate of two nodes with
\* or without a link, a request of one node, and the pointer, mask and size
Observations ==
    {[p_net_x |-> px, p_net_edge_index |-> pe, v_net_x |-> vx,
      curr_v_node_id |-> c, action_mask |-> IF c = 0 THEN <<1, 1>> ELSE <<0, 1>>,
      v_net_size |-> IF c = 0 THEN 3 ELSE 5] :
        px \in {<<<<1>>, <<2>>>>, <<<<16777217>>, <<0>>>>},
        pe \in {<<<<>>, <<>>>>, <<<<0, 1>>, <<1, 0>>>>},
        vx \in {<<<<1>>>>, <<<<16777219>>>>},
        c \in {0, 1}}

TensorInit ==
    /\ policy_params = (1 :> 0) @@ (2 :> 0)
    /\ infer_with_single_task_policy_id = 0
    /\ disk = <<>>
    /\ optimizers = (1 :> [params_of |-> 1, state |-> 0])
                       @@ (2 :> [params_of |-> 2, state |-> 0])
    /\ buffers = (1 :> EmptyBuffer)
    /\ policy = 1
    /\ optimizer = 1
    /\ buffer = 1
    /\ searcher_policy = 1
    /\ meta_policy = 2
    /\ meta_optimizer = 2
    /\ task_policies = EmptyMap
    /\ task_optimizers = EmptyMap
    /\ generic_calls = <<>>
    /\ learn_calls = <<>>
    /\ ncalls = 0
    /\ last_call = Call("init", "", FALSE, FALSE, 0)
    /\ NoSplit
    /\ \E n \in 1..MaxBatch : obs_in \in [1..n -> Observations]
    /\ tensor_one = NoResult
    /\ tensor_batch = NoResult
    /\ tensor_pc = "ready"

\* obs_as_tensor(obs, device) with the first observation, a dict
ObsAsTensorOne ==
    /\ tensor_pc \in {"ready", "batch"}
    /\ tensor_one' = ObsAsTensor([type |-> "dict", value |-> obs_in[1]])
    /\ tensor_pc' = IF tensor_pc = "ready" THEN "one" ELSE "both"
    /\ UNCHANGED <<agent_vars, disk, last_call, generic_calls, learn_calls,
                   ncalls, split_vars, obs_in, tensor_batch>>

\* obs_as_tensor(obs, device) with the list of observations
ObsAsTensorBatch ==
    /\ tensor_pc \in {"ready", "one"}
    /\ tensor_batch' = ObsAsTensor([type |-> "list", value |-> obs_in])
    /\ tensor_pc' = IF tensor_pc = "ready" THEN "batch" ELSE "both"
    /\ UNCHANGED <<agent_vars, disk, last_call, generic_calls, learn_calls,
                   ncalls, split_vars, obs_in, tensor_one>>

TensorNext == ObsAsTensorOne \/ ObsAsTensorBatch

SpecTensor == TensorInit /\ [][TensorNext]_vars

\* ------------------------------------------------------------ properties
Fields == {"observations", "actions", "logprobs", "rewards", "returns"}

RECURSIVE SumOver(_, _)
SumOver(f, S) ==
    IF S = {} THEN 0
    ELSE LET x == CHOOSE y \in S : TRUE IN f[x] + SumOver(f, S \ {x})

\* the original indices of the steps labelled task_id
Positions(b, task_id) ==
    {i \in 1..BufferSize(b) : b.observations[i].v_net_size = task_id}

\* how many steps up to index i carry the label of step i
RankOf(b, i) ==
    Cardinality({k \in 1..i : b.observations[k].v_net_size = b.observations[i].v_net_size})

\* the sub-buffers put back together by original index
Merged(b, out) ==
    [f \in Fields |->
        [i \in 1..BufferSize(b) |->
            out.task_buffers[b.observations[i].v_net_size][f][RankOf(b, i)]]]

\* C1: _split_buffer partitions the buffer: the sub-buffers' sizes sum to N,
\* each holds exactly the steps of its own task id, in their original order
\* (so the index sets are disjoint and cover 1..N), and merging them by
\* original index gives back the five sequences of the source buffer.
C1_SplitPartitions ==
    split_pc = "done" =>
        LET b == split_in
            out == split_out
            N == BufferSize(b)
            ids == DOMAIN out.task_buffers
        IN  /\ SumOver([t \in ids |-> BufferSize(out.task_buffers[t])], ids) = N
            /\ \A t \in ids :
                 /\ BufferSize(out.task_buffers[t]) = Cardinality(Positions(b, t))
                 /\ \A f \in Fields : Len(out.task_buffers[t][f]) = BufferSize(out.task_buffers[t])
                 /\ \A j \in 1..BufferSize(out.task_buffers[t]) :
                      out.task_buffers[t].observations[j].v_net_size = t
            /\ UNION {Positions(b, t) : t \in ids} = 1..N
            /\ \A t, u \in ids : t # u => Positions(b, t) \cap Positions(b, u) = {}
            /\ \A i \in 1..N :
                 /\ b.observations[i].v_net_size \in ids
                 /\ RankOf(b, i) <= BufferSize(out.task_buffers[b.observations[i].v_net_size])
            /\ \A f \in Fields : Merged(b, out)[f] = b[f]

C1_Witness ==
    /\ split_pc = "done"
    /\ BufferSize(split_in) = 3
    /\ VNetSizeList(split_in) = <<5, 3, 5>>
    /\ split_in.actions = <<0, 0, 1>>
    /\ split_out.task_buffers[5].actions = <<0, 1>>
    /\ split_out.task_buffers[3].actions = <<0>>

\* the task ids of the generic updates the latest call made
UpdatedTasks(calls) == {calls[i].task_id : i \in 1..Len(calls)}

\* no two task policies are one object, and none is the meta-policy object
NoSharedPolicy ==
    /\ \A t, u \in DOMAIN task_policies : t # u => task_policies[t] # task_policies[u]
    /\ \A t \in DOMAIN task_policies : task_policies[t] # meta_policy

\* an update() changes the parameters of no task policy it ran no generic
\* update for, and not those of the meta-policy
UpdateLeavesOthers ==
    last_call'.op = "update" =>
        /\ policy_params'[meta_policy'] = policy_params[meta_policy]
        /\ \A t \in DOMAIN task_policies' \ UpdatedTasks(generic_calls') :
             policy_params'[task_policies'[t]] =
                IF t \in DOMAIN task_policies THEN policy_params[task_policies[t]]
                ELSE policy_params[meta_policy]

\* C2: in every reachable state no two task policies share a parameter object
\* and none shares one with the meta-policy; a generic update of one task
\* policy leaves every other task policy and the meta-policy unchanged.
C2_PolicyIsolation == []NoSharedPolicy /\ [][UpdateLeavesOthers]_vars

C2_Witness ==
    /\ last_call.op = "update"
    /\ UpdatedTasks(generic_calls) = {3}
    /\ DOMAIN task_policies = {3, 5}
    /\ policy_params[task_policies[3]] = 1
    /\ policy_params[task_policies[5]] = 0
    /\ policy_params[meta_policy] = 0

\* the steps handed to the generic updates of the latest call, counted
RECURSIVE StepsPassed(_)
StepsPassed(calls) ==
    IF calls = <<>> THEN 0
    ELSE BufferSize(Head(calls).steps) + StepsPassed(Tail(calls))

\* C3: experience is consumed exactly once: an update() that returns has
\* passed every step of the buffer to one generic update, and the buffer the
\* agent appends to afterwards holds no step collected before that update().
C3_ConsumedOnce ==
    [][(last_call'.op = "update" /\ ~last_call'.raised) =>
          /\ StepsPassed(generic_calls') = BufferSize(buffers[buffer])
          /\ BufferSize(buffers'[buffer']) = 0]_vars

\* what the agent holds: every policy and optimizer object, and the two
\* task dictionaries
Held == <<policy_params, optimizers, task_policies, task_optimizers,
          meta_policy, meta_optimizer>>

\* C4: a load_model that fails (whatever the failure) does not raise and
\* leaves the meta-policy, the task policies, the optimizers and the set of
\* task ids as they were before the call.
C4_FailedLoadKeepsState ==
    [][(last_call'.op = "load_model" /\ last_call'.caught) =>
          /\ ~last_call'.raised
          /\ Held' = Held]_vars

\* C5: load_model with a path at which no checkpoint exists does not raise
\* and leaves the meta-policy, every task policy, every optimizer and the set
\* of task ids unchanged.
C5_MissingFileKeepsState ==
    [][(last_call'.op = "load_model" /\ last_call'.input = "missing") =>
          /\ ~last_call'.raised
          /\ last_call'.caught
          /\ Held' = Held]_vars

C5_Witness ==
    /\ last_call.op = "load_model"
    /\ last_call.input = "missing"
    /\ DOMAIN task_policies = {3, 5}
    /\ policy_params[task_policies[3]] = 1

\* the parameters and optimizer state the agent holds for the archive's entry
HeldEntry(p, o) == [policy |-> policy_params[p], optimizer |-> optimizers[o].state]

\* the agent holds the meta-policy and every task policy of archive a with
\* the archived parameters and optimizer state
HoldsArchive(a) ==
    /\ HeldEntry(meta_policy, meta_optimizer) = a.meta_policy
    /\ DOMAIN a.task_policies \subseteq DOMAIN task_policies
    /\ DOMAIN a.task_policies \subseteq DOMAIN task_optimizers
    /\ \A t \in DOMAIN a.task_policies :
         HeldEntry(task_policies[t], task_optimizers[t]) = a.task_policies[t]

\* C6: checkpoint round trip: save_model writes the values held at save
\* time, under the same task ids, and a load_model of that archive leaves the
\* meta-policy and every archived task policy equal to the archive, whatever
\* the loading agent held before.
C6_RoundTrip ==
    [][/\ last_call'.op = "save_model" =>
            /\ Len(disk') = 1
            /\ DOMAIN disk'[1].task_policies = DOMAIN task_policies
            /\ HoldsArchive(disk'[1])
            /\ Held' = Held
       /\ (last_call'.op = "load_model" /\ last_call'.input = "intact") =>
            /\ ~last_call'.caught
            /\ disk' = disk
            /\ HoldsArchive(disk[1])']_vars

C6_Witness ==
    /\ last_call.op = "load_model"
    /\ last_call.input = "intact"
    /\ disk # <<Pretrained>>
    /\ DOMAIN disk[1].task_policies = {3, 5}
    /\ disk[1].task_policies[3].policy = 1
    /\ disk[1].task_policies[5].policy = 0
    /\ HoldsArchive(disk[1])

\* C7: lazy creation is idempotent: a learn_with_instance or update leaves
\* the policy and optimizer objects of every task id that has a pair in place,
\* creates one pair per new task id and no other object, and changes the
\* parameters and optimizer state of an existing pair only by the generic
\* updates it runs for that id.
C7_LazyCreationOnce ==
    [][last_call'.op \in {"learn_with_instance", "update"} =>
          /\ \A t \in DOMAIN task_policies :
               /\ t \in DOMAIN task_policies' /\ t \in DOMAIN task_optimizers'
               /\ task_policies'[t] = task_policies[t]
               /\ task_optimizers'[t] = task_optimizers[t]
               /\ t \notin UpdatedTasks(generic_calls') =>
                    /\ policy_params'[task_policies[t]] = policy_params[task_policies[t]]
                    /\ optimizers'[task_optimizers[t]] = optimizers[task_optimizers[t]]
               /\ policy_params'[task_policies[t]] >= policy_params[task_policies[t]]
               /\ optimizers'[task_optimizers[t]].state >= optimizers[task_optimizers[t]].state
          /\ Cardinality(DOMAIN policy_params') - Cardinality(DOMAIN policy_params)
                = Cardinality(DOMAIN task_policies' \ DOMAIN task_policies)
          /\ Cardinality(DOMAIN optimizers') - Cardinality(DOMAIN optimizers)
                = Cardinality(DOMAIN task_optimizers' \ DOMAIN task_optimizers)]_vars

C7_Witness ==
    /\ last_call.op = "learn_with_instance"
    /\ 3 \in DOMAIN task_policies
    /\ policy = task_policies[3]
    /\ policy_params[policy] = 1
    /\ optimizers[optimizer].state = 1
    /\ policy_params[meta_policy] = 0

\* C8: without the single-policy override, solve runs inference with the task
\* policy of the instance's size when there is one and with the meta-policy
\* otherwise, and creates no task policy or optimizer.
C8_SolveRoutes ==
    [][last_call'.op = "solve" => \A v \in TaskIds :
          (Solve(v) /\ infer_with_single_task_policy_id = 0) =>
             /\ ~last_call'.raised
             /\ last_call'.inferred_with =
                   IF v \in DOMAIN task_policies THEN task_policies[v] ELSE meta_policy
             /\ searcher_policy' = last_call'.inferred_with
             /\ Held' = Held]_vars

C8_Witness ==
    /\ last_call.op = "solve"
    /\ infer_with_single_task_policy_id = 0
    /\ last_call.inferred_with = meta_policy
    /\ DOMAIN task_policies = {3}

\* C9: with the single-policy override set, solve runs inference with that
\* id's task policy whatever the instance's size; when the id has no task
\* policy it raises before any inference, does not use the meta-policy and
\* creates no task policy.
C9_SolveOverride ==
    [][last_call'.op = "solve" => \A v \in TaskIds :
          (Solve(v) /\ infer_with_single_task_policy_id # 0) =>
             /\ Held' = Held
             /\ IF infer_with_single_task_policy_id \in DOMAIN task_policies
                THEN /\ ~last_call'.raised
                     /\ last_call'.inferred_with =
                           task_policies[infer_with_single_task_policy_id]
                     /\ searcher_policy' = last_call'.inferred_with
                ELSE /\ last_call'.raised
                     /\ last_call'.inferred_with = 0
                     /\ searcher_policy' = searcher_policy]_vars

C9_Witness ==
    /\ last_call.op = "solve"
    /\ last_call.raised
    /\ infer_with_single_task_policy_id = 5
    /\ DOMAIN task_policies = {3}

\* C10: a generic update that fails during update() makes update() raise at
\* once: the generic update has run for the task ids up to the failing one
\* and for none after it, and the buffer that was active when update() was
\* called still holds all its steps.
C10_FailFast ==
    [][last_call'.op = "update" => \A fail \in TaskIds, partial \in BOOLEAN :
          Update(fail, partial) =>
             /\ last_call'.raised
             /\ [i \in 1..Len(generic_calls') |-> generic_calls'[i].task_id]
                   = SortedList({t \in Range(VNetSizeList(buffers[buffer])) : t <= fail})
             /\ buffer \in DOMAIN buffers'
             /\ buffers'[buffer] = buffers[buffer]]_vars

C10_Witness ==
    /\ last_call.op = "update"
    /\ last_call.raised
    /\ Len(generic_calls) = 1
    /\ generic_calls[1].task_id = 3
    /\ 5 \in DOMAIN task_policies
    /\ \E b \in DOMAIN buffers : VNetSizeList(buffers[b]) = <<5, 3>>

\* C11: when learn_with_instance hands control to the generic episode, the
\* instance's size has a task policy and a task optimizer, and the active
\* policy and optimizer are that pair: not the meta pair, not the pair of
\* another size, whatever policy was active when the call began.
C11_LearnActivatesTaskPair ==
    [][last_call'.op = "learn_with_instance" =>
          \A v \in TaskIds, n \in 1..MaxEpisodeSteps :
             LearnWithInstance(v, n) =>
                /\ Len(learn_calls') = 1
                /\ LET h == learn_calls'[1]
                   IN  /\ h.v_net_size = v
                       /\ v \in DOMAIN h.task_policies
                       /\ v \in DOMAIN h.task_optimizers
                       /\ h.policy = h.task_policies[v]
                       /\ h.optimizer = h.task_optimizers[v]
                       /\ optimizers'[h.optimizer].params_of = h.policy
                       /\ h.policy # meta_policy
                       /\ h.optimizer # meta_optimizer
                       /\ \A u \in DOMAIN h.task_policies \ {v} :
                            /\ h.policy # h.task_policies[u]
                            /\ h.optimizer # h.task_optimizers[u]]_vars

C11_Witness ==
    /\ last_call.op = "learn_with_instance"
    /\ Len(learn_calls) = 1
    /\ learn_calls[1].v_net_size = 5
    /\ DOMAIN task_policies = {3, 5}
    /\ learn_calls[1].policy_before = task_policies[3]
    /\ learn_calls[1].policy = task_policies[5]
    /\ policy_params[task_policies[5]] = 1

\* C12: the mapping _split_buffer returns has as keys exactly the distinct
\* task ids of the buffer's observations, each with a sub-buffer that is not
\* empty, and iterates them in strictly ascending order whatever the order of
\* first appearance; for the labels 3,3,5,5,5,3 it yields task 3 with the
\* steps of indices 0,1,5 and task 5 with those of indices 2,3,4, as [3, 5].
C12_SplitKeysAscending ==
    split_pc = "done" =>
        LET ids == Range(VNetSizeList(split_in))
            keys == split_out.keys
        IN  /\ DOMAIN split_out.task_buffers = ids
            /\ Range(keys) = ids
            /\ Len(keys) = Cardinality(ids)
            /\ \A i \in 1..(Len(keys) - 1) : keys[i] < keys[i + 1]
            /\ \A t \in ids : BufferSize(split_out.task_buffers[t]) > 0
            /\ split_in = ScenarioBuffer =>
                 /\ keys = <<3, 5>>
                 /\ \A f \in Fields \ {"observations"} :
                      /\ split_out.task_buffers[3][f] = <<0, 1, 5>>
                      /\ split_out.task_buffers[5][f] = <<2, 3, 4>>
                 /\ [j \in 1..3 |-> split_out.task_buffers[3].observations[j].curr_v_node_id]
                       = <<0, 1, 5>>
                 /\ [j \in 1..3 |-> split_out.task_buffers[5].observations[j].curr_v_node_id]
                       = <<2, 3, 4>>

C12_Witness ==
    /\ split_pc = "done"
    /\ split_in = ScenarioBuffer
    /\ split_out.keys = <<3, 5>>
    /\ split_out.task_buffers[3].actions = <<0, 1, 5>>

TensorFields == {"p_net", "v_net_x", "curr_v_node_id", "action_mask", "v_net_size"}

\* C13: batching equivalence: obs_as_tensor(obs) and obs_as_tensor([obs])
\* return the same five fields with identical values, each with a leading
\* batch dimension of 1 (one graph in the batched substrate graph).
C13_BatchingEquivalence ==
    (tensor_pc = "both" /\ Len(obs_in) = 1) =>
        /\ ~tensor_one.raised /\ ~tensor_batch.raised
        /\ DOMAIN tensor_one.fields = TensorFields
        /\ DOMAIN tensor_batch.fields = TensorFields
        /\ \A f \in TensorFields : tensor_one.fields[f] = tensor_batch.fields[f]
        /\ \A f \in TensorFields \ {"p_net"} :
             /\ tensor_one.fields[f].shape[1] = 1
             /\ tensor_batch.fields[f].shape[1] = 1
        /\ tensor_one.fields.p_net.num_graphs = 1
        /\ tensor_batch.fields.p_net.num_graphs = 1

C13_Witness ==
    /\ tensor_pc = "both"
    /\ Len(obs_in) = 1
    /\ obs_in[1].v_net_x = <<<<16777219>>>>
    /\ tensor_one.fields.v_net_x.data = <<<<<<16777220>>>>>>
    /\ tensor_batch.fields.v_net_x.shape = <<1, 1, 1>>
    /\ tensor_batch.fields.p_net.edge_index = <<<<0, 1>>, <<1, 0>>>>

\* C14: an update() in which no generic update fails calls the generic
\* update once for each distinct task id of the buffer and for no other id,
\* in ascending order of the ids, each time with that task's policy, that
\* task's optimizer and that task's sub-buffer (a buffer object of its own
\* holding the task's steps in their original order) as the active triple.
C14_UpdatePerTask ==
    [][(last_call'.op = "update" /\ ~last_call'.raised) =>
          LET b == buffers[buffer]
              calls == generic_calls'
              ids == Range(VNetSizeList(b))
          IN  /\ Len(calls) = Cardinality(ids)
              /\ UpdatedTasks(calls) = ids
              /\ \A i \in 1..(Len(calls) - 1) : calls[i].task_id < calls[i + 1].task_id
              /\ \A i, j \in 1..Len(calls) : i # j => calls[i].buffer # calls[j].buffer
              /\ \A i \in 1..Len(calls) :
                   LET c == calls[i]
                       t == c.task_id
                   IN  /\ c.policy = c.task_policies[t]
                       /\ c.optimizer = c.task_optimizers[t]
                       /\ c.policy = task_policies'[t]
                       /\ c.optimizer = task_optimizers'[t]
                       /\ c.buffer # buffer
                       /\ \A f \in Fields :
                            /\ Len(c.steps[f]) = Cardinality(Positions(b, t))
                            /\ \A k \in Positions(b, t) :
                                 c.steps[f][RankOf(b, k)] = b[f][k]]_vars

C14_Witness ==
    /\ last_call.op = "update"
    /\ ~last_call.raised
    /\ Len(generic_calls) = 2
    /\ generic_calls[1].task_id = 3
    /\ generic_calls[2].task_id = 5
    /\ VNetSizeList(generic_calls[1].steps) = <<3>>
    /\ \E o \in DOMAIN buffers : VNetSizeList(buffers[o]) = <<5>>
    /\ generic_calls[1].policy # generic_calls[2].policy

\* C15: the swap done by update() is temporary: when update() returns
\* normally the active buffer is the buffer object that was active when it
\* was called, now empty, and the active policy and optimizer are those that
\* were active when it was called.
C15_SwapIsTemporary ==
    [][(last_call'.op = "update" /\ ~last_call'.raised) =>
          /\ buffer' = buffer
          /\ buffers'[buffer'] = EmptyBuffer
          /\ policy' = policy
          /\ optimizer' = optimizer]_vars

\* every task id has a policy exactly when it has an optimizer, and the
\* optimizer is the one made for that policy's parameters
PairsAligned ==
    /\ DOMAIN task_policies = DOMAIN task_optimizers
    /\ \A t \in DOMAIN task_policies :
         optimizers[task_optimizers[t]].params_of = task_policies[t]

\* in agent s the pair of task id t is as it is made: the meta-policy's
\* current parameters and an optimizer that has taken no step
AsCreated(s, t) ==
    /\ s.policy_params[s.task_policies[t]] = policy_params[meta_policy]
    /\ s.optimizers[s.task_optimizers[t]] =
          [params_of |-> s.task_policies[t], state |-> 0]

\* the creation loop of update(), for any list of ids the buffer may hold:
\* afterwards every id of the list has a pair, the new ones as created and
\* the old ones the objects they were
InitCreatesMissing ==
    \A task_ids \in UNION {Orders(S) : S \in SUBSET TaskIds} :
        LET s == InitTaskPolicies(Self, task_ids)
        IN  /\ Range(task_ids) \subseteq DOMAIN s.task_policies
            /\ DOMAIN s.task_policies = DOMAIN s.task_optimizers
            /\ \A t \in Range(task_ids) \ DOMAIN task_policies : AsCreated(s, t)
            /\ \A t \in DOMAIN task_policies :
                 /\ s.task_policies[t] = task_policies[t]
                 /\ s.task_optimizers[t] = task_optimizers[t]
                 /\ s.policy_params[s.task_policies[t]] = policy_params[task_policies[t]]

\* a state after the call: the agent's fields as a record
SelfAfter == [Self EXCEPT !.buffers = buffers]

\* what learn_with_instance and update() do about missing pairs
CreatesBeforeUse ==
    /\ last_call'.op = "learn_with_instance" =>
          \A t \in DOMAIN task_policies' \ DOMAIN task_policies :
             /\ t = learn_calls'[1].v_net_size
             /\ AsCreated(SelfAfter', t)
    /\ last_call'.op = "update" =>
          LET ids == Range(VNetSizeList(buffers[buffer]))
              calls == generic_calls'
          IN  /\ Len(calls) >= 1 =>
                   /\ ids \subseteq DOMAIN calls[1].task_policies
                   /\ ids \subseteq DOMAIN calls[1].task_optimizers
              /\ ids \subseteq DOMAIN task_policies'
              /\ \A t \in DOMAIN task_policies' \ DOMAIN task_policies :
                   /\ t \in ids
                   /\ IF t \in UpdatedTasks(calls)
                      THEN \A i \in 1..Len(calls) : calls[i].task_id = t =>
                              /\ calls[i].params = policy_params[meta_policy]
                              /\ calls[i].state = 0
                      ELSE AsCreated(SelfAfter', t)

\* C16: before update() calls the first generic update every task id of the
\* buffer has a task policy and a task optimizer; a pair made for that, like
\* a pair made by learn_with_instance, starts with the meta-policy's
\* parameters of that moment and an optimizer that has taken no step; and in
\* every reachable state the ids with a policy are the ids with an optimizer.
C16_PairsBeforeUpdate ==
    [](PairsAligned /\ InitCreatesMissing) /\ [][CreatesBeforeUse]_vars

C16_Witness ==
    /\ last_call.op = "learn_with_instance"
    /\ learn_calls[1].v_net_size = 3
    /\ DOMAIN task_policies = {3, 5}
    /\ policy_params[meta_policy] = 1
    /\ AsCreated(Self, 3)
    /\ policy_params[task_policies[5]] = 2

\* C17: after a load_model that succeeds the meta-policy equals the archived
\* one and every archived task id has a policy and optimizer equal to the
\* archived ones (the object it had when it had one, a new one otherwise);
\* the pairs of ids that are not in the archive are kept with their parameters
\* and optimizer state, so the ids afterwards are the ids held before
\* together with the archive's.
C17_LoadMergesArchive ==
    [][(last_call'.op = "load_model" /\ ~last_call'.caught) =>
          LET archived == DOMAIN disk[1].task_policies
          IN  /\ ~last_call'.raised
              /\ HoldsArchive(disk[1])'
              /\ meta_policy' = meta_policy
              /\ meta_optimizer' = meta_optimizer
              /\ DOMAIN task_policies' = DOMAIN task_policies \cup archived
              /\ DOMAIN task_optimizers' = DOMAIN task_optimizers \cup archived
              /\ \A t \in DOMAIN task_policies :
                   /\ task_policies'[t] = task_policies[t]
                   /\ task_optimizers'[t] = task_optimizers[t]
              /\ \A t \in DOMAIN task_policies \ archived :
                   /\ policy_params'[task_policies[t]] = policy_params[task_policies[t]]
                   /\ optimizers'[task_optimizers[t]] = optimizers[task_optimizers[t]]
              /\ \A t \in archived \ DOMAIN task_policies :
                   /\ task_policies'[t] \notin DOMAIN policy_params
                   /\ task_optimizers'[t] \notin DOMAIN optimizers]_vars

C17_Witness ==
    /\ last_call.op = "load_model"
    /\ ~last_call.caught
    /\ disk = <<Pretrained>>
    /\ DOMAIN task_policies = {3, 5}
    /\ policy_params[task_policies[3]] = 1
    /\ optimizers[task_optimizers[3]].state = 1
    /\ policy_params[task_policies[5]] = 2
    /\ policy_params[meta_policy] = 1

\* the meta pair is never the active pair
MetaNeverActive ==
    /\ policy # meta_policy
    /\ optimizer # meta_optimizer
    /\ optimizers[optimizer].params_of # meta_policy

\* a call other than load_model leaves the meta pair alone
MetaUnchanged ==
    last_call'.op \in {"solve", "learn_with_instance", "update", "save_model"} =>
        /\ meta_policy' = meta_policy
        /\ meta_optimizer' = meta_optimizer
        /\ policy_params'[meta_policy] = policy_params[meta_policy]
        /\ optimizers'[meta_optimizer] = optimizers[meta_optimizer]
        /\ \A t \in DOMAIN task_policies' \ DOMAIN task_policies :
             t \notin UpdatedTasks(generic_calls') =>
                policy_params'[task_policies'[t]] = policy_params'[meta_policy']

\* C18: no operation but load_model changes the meta-policy's parameters or
\* the meta-optimizer's state: solve, learn_with_instance, update and
\* save_model leave them as they were at construction or at the last load, so
\* every task policy made between two loads starts from the same parameters.
C18_MetaFrozen == []MetaNeverActive /\ [][MetaUnchanged]_vars

C18_Witness ==
    /\ last_call.op = "update"
    /\ ~last_call.raised
    /\ Len(generic_calls) = 1
    /\ generic_calls[1].params = 0
    /\ policy_params[generic_calls[1].policy] = 1
    /\ policy_params[meta_policy] = 1
    /\ optimizers[meta_optimizer].state = 0
    /\ disk = <<Pretrained>>

\* C19: splitting keeps the index alignment: every sub-buffer has its five
\* sequences of one length, entry j of each of them coming from one step of
\* the source (the steps taken in increasing order of index), and the call
\* leaves the five sequences of the source buffer as they were.
C19_SplitKeepsAlignment ==
    split_pc = "done" =>
        LET N == BufferSize(split_src)
        IN  /\ \A f \in Fields : Len(split_src[f]) = N
            /\ \A t \in DOMAIN split_out.task_buffers :
                 LET sub == split_out.task_buffers[t]
                     n == Len(sub.observations)
                 IN  /\ \A f \in Fields : Len(sub[f]) = n
                     /\ \E idx \in [1..n -> 1..N] :
                          /\ \A j \in 1..(n - 1) : idx[j] < idx[j + 1]
                          /\ \A j \in 1..n : \A f \in Fields :
                               sub[f][j] = split_src[f][idx[j]]
            /\ \A f \in Fields : split_in[f] = split_src[f]

C19_Witness ==
    /\ split_pc = "done"
    /\ VNetSizeList(split_src) = <<3, 5, 3>>
    /\ split_src.rewards = <<0, 1, 0>>
    /\ split_src.logprobs = <<0, 0, 1>>
    /\ split_out.task_buffers[3].logprobs = <<0, 1>>
    /\ split_out.task_buffers[5].rewards = <<1>>
    /\ split_in = split_src

====
